---- MODULE Spec2Model ----
(***************************************************************************)
(* Model of the schema-driven data access layer of dynamic-db-explorer:    *)
(* src/app/services/database.ts (statement construction, parameter        *)
(* binding, pagination with fallback) and the HTTP routes that call it.    *)
(* One request is followed from the route entry to its response; the       *)
(* database engine is the environment and answers every dispatched         *)
(* statement with rows or with an error.                                   *)
(***************************************************************************)
EXTENDS Integers, Sequences, FiniteSets, TLC

\* ------------------------------------------------------------------ bounds
MaxKeys == 2          \* keys of a request's record payload
MaxPage == 3          \* largest page number requested
MaxPageSize == 2      \* largest pageSize requested
MaxRows == 5          \* rows of the filtered table

\* ------------------------------------------------------------ JS values
Null == [t |-> "null"]
Num(n) == [t |-> "number", n |-> n, isInteger |-> TRUE]
Str(s) == [t |-> "string", s |-> s]
EmptyArray == [t |-> "array"]
Buffer(b) == [t |-> "buffer", b |-> b]
Bool(b) == [t |-> "boolean", b |-> b]

Values == {Null, Num(3), Str("abc")}

\* whereCondition as it arrives in a PUT body (string, absent, or other JSON)
\* and in a DELETE query string (string or absent)
Undefined == [t |-> "undefined"]
PutWhereValues == {Undefined, Str(""), Str("Id = 1"), EmptyArray}
DeleteWhereValues == {Null, Str(""), Str("Id = 1")}

\* ------------------------------------------------------- table metadata
\* columns of the table as the columns query returns them; the flags are
\* the engine's 0/1 integers
ColNames == <<"Id", "CustomerId", "Total">>
ColTypes == <<"int", "bigint", "decimal">>
Flags == [isNullable : {0, 1}, isIdentity : {0, 1}]

ColumnRows(n, f) ==
  [i \in 1..n |-> [name |-> ColNames[i], dataType |-> ColTypes[i],
                   isNullable |-> f[i].isNullable, isIdentity |-> f[i].isIdentity]]

\* a table that does not exist yields no column rows
ColumnResults ==
  {<<>>} \cup {ColumnRows(Len(ColNames), f) : f \in [1..Len(ColNames) -> Flags]}

\* keys a payload may carry: the table's columns and two keys that are no
\* column of it (both canonical array indices)
Keys == {"Id", "CustomerId", "Total", "7", "12"}

RECURSIVE SeqsOver(_, _)
SeqsOver(S, n) ==
  IF n = 0 THEN {<<>>}
  ELSE LET shorter == SeqsOver(S, n - 1)
       IN shorter \cup {Append(s, e) : s \in {q \in shorter : Len(q) = n - 1}, e \in S}

Range(s) == {s[i] : i \in 1..Len(s)}
Distinct(s) == \A i, j \in 1..Len(s) : i # j => s[i] # s[j]

\* a parsed JSON object: its properties in creation order
Objects ==
  {[i \in 1..Len(ks) |-> [k |-> ks[i], v |-> vs[i]]] :
     <<ks, vs>> \in {p \in SeqsOver(Keys, MaxKeys) \X SeqsOver(Values, MaxKeys) :
                       Len(p[1]) = Len(p[2]) /\ Distinct(p[1])}}

\* --------------------------------------------------- property enumeration
Includes(s, sub) ==
  \E i \in 1..(Len(s) - Len(sub) + 1) : SubSeq(s, i, i + Len(sub) - 1) = sub

Digits == <<"0", "1", "2", "3", "4", "5", "6", "7", "8", "9">>
IsDigit(c) == \E d \in 1..10 : Digits[d] = c
DigitVal(c) == (CHOOSE d \in 1..10 : Digits[d] = c) - 1

\* a canonical array index: decimal digits without a leading zero
IsArrayIndex(k) ==
  /\ Len(k) > 0
  /\ \A i \in 1..Len(k) : IsDigit(SubSeq(k, i, i))
  /\ (Len(k) = 1 \/ SubSeq(k, 1, 1) # "0")

RECURSIVE IndexValue(_)
IndexValue(k) ==
  IF Len(k) = 0 THEN 0
  ELSE 10 * IndexValue(SubSeq(k, 1, Len(k) - 1)) + DigitVal(SubSeq(k, Len(k), Len(k)))

RECURSIVE SortByIndex(_)
SortByIndex(ks) ==
  IF ks = <<>> THEN <<>>
  ELSE LET m == CHOOSE i \in 1..Len(ks) :
                  \A j \in 1..Len(ks) : IndexValue(ks[i]) <= IndexValue(ks[j])
       IN <<ks[m]>> \o SortByIndex(SubSeq(ks, 1, m - 1) \o SubSeq(ks, m + 1, Len(ks)))

\* Object.keys of an object whose properties were created in the order ins:
\* array-index keys ascending, then the other keys in creation order
ObjectKeys(ins) ==
  SortByIndex(SelectSeq(ins, IsArrayIndex))
    \o SelectSeq(ins, LAMBDA k : ~IsArrayIndex(k))

PropNames(obj) == [i \in 1..Len(obj) |-> obj[i].k]
Get(obj, key) == (CHOOSE i \in 1..Len(obj) : obj[i].k = key)
Prop(obj, key) == obj[Get(obj, key)].v

\* String(x) as template interpolation renders it
StringOf(x) ==
  CASE x.t = "string" -> x.s
    [] x.t = "array" -> ""
    [] x.t = "null" -> "null"
    [] x.t = "undefined" -> "undefined"
    [] OTHER -> "value"

\* JS truthiness of a request value
Truthy(x) ==
  CASE x.t = "string" -> x.s # ""
    [] x.t = "null" -> FALSE
    [] x.t = "undefined" -> FALSE
    [] x.t = "number" -> x.n # 0
    [] x.t = "boolean" -> x.b
    [] OTHER -> TRUE

\* ------------------------------------------------------ binding types
getTypeFromSqlType(sqlType) ==
  IF Includes(sqlType, "char") \/ Includes(sqlType, "text")
  THEN IF Includes(sqlType, "nvarchar") \/ Includes(sqlType, "nchar") \/ Includes(sqlType, "ntext")
       THEN (IF Includes(sqlType, "max") THEN "NText" ELSE "NVarChar")
       ELSE (IF Includes(sqlType, "max") THEN "Text" ELSE "VarChar")
  ELSE IF sqlType = "bit" THEN "Bit"
  ELSE IF Includes(sqlType, "int") THEN "Int"
  ELSE IF sqlType = "bigint" THEN "BigInt"
  ELSE IF sqlType = "smallint" THEN "SmallInt"
  ELSE IF sqlType = "tinyint" THEN "TinyInt"
  ELSE IF sqlType = "float" \/ sqlType = "real" THEN "Float"
  ELSE IF sqlType \in {"decimal", "numeric", "money", "smallmoney"} THEN "Decimal"
  ELSE IF Includes(sqlType, "date")
       THEN (IF sqlType = "date" THEN "Date"
             ELSE IF sqlType = "datetime" \/ sqlType = "datetime2" THEN "DateTime2"
             ELSE IF sqlType = "datetimeoffset" THEN "DateTimeOffset"
             ELSE IF sqlType = "smalldatetime" THEN "SmallDateTime"
             ELSE "NVarChar")
  ELSE IF Includes(sqlType, "time") THEN "Time"
  ELSE IF sqlType = "uniqueidentifier" THEN "UniqueIdentifier"
  ELSE IF sqlType = "xml" THEN "Xml"
  ELSE IF sqlType \in {"image", "binary", "varbinary"}
       THEN (IF sqlType = "image" THEN "Image" ELSE "VarBinary")
  ELSE "NVarChar"

\* ------------------------------------------------ executeQuery: binding
StartsWith(s, pre) == Len(s) >= Len(pre) /\ SubSeq(s, 1, Len(pre)) = pre

\* param.split(';base64,')[1]: the text between the first separator and
\* the next one (or the end)
Base64Part(s) ==
  LET sep == ";base64,"
      occ(t) == {i \in 1..(Len(t) - Len(sep) + 1) : SubSeq(t, i, i + Len(sep) - 1) = sep}
      first == CHOOSE i \in occ(s) : \A j \in occ(s) : i <= j
      rest == SubSeq(s, first + Len(sep), Len(s))
  IN IF occ(rest) = {} THEN rest
     ELSE SubSeq(rest, 1, (CHOOSE i \in occ(rest) : \A j \in occ(rest) : i <= j) - 1)

\* Buffer.from(text, 'base64'): every four characters of the alphabet give
\* three bytes, a last group of two or three gives one or two; characters
\* outside the alphabet (padding included) carry no bits
Base64Alphabet == "ABCDEFGHIJKLMNOPQRSTUVWXYZabcdefghijklmnopqrstuvwxyz0123456789+/"
IsBase64Char(c) == \E i \in 1..Len(Base64Alphabet) : SubSeq(Base64Alphabet, i, i) = c
Base64Val(c) == (CHOOSE i \in 1..Len(Base64Alphabet) : SubSeq(Base64Alphabet, i, i) = c) - 1

RECURSIVE Sextets(_)
Sextets(s) ==
  IF Len(s) = 0 THEN <<>>
  ELSE LET c == SubSeq(s, 1, 1)
           rest == Sextets(SubSeq(s, 2, Len(s)))
       IN IF IsBase64Char(c) THEN <<Base64Val(c)>> \o rest ELSE rest

RECURSIVE BytesOf(_)
BytesOf(x) ==
  IF Len(x) < 2 THEN <<>>
  ELSE IF Len(x) = 2 THEN <<x[1] * 4 + x[2] \div 16>>
  ELSE IF Len(x) = 3 THEN <<x[1] * 4 + x[2] \div 16, (x[2] % 16) * 16 + x[3] \div 4>>
  ELSE <<x[1] * 4 + x[2] \div 16, (x[2] % 16) * 16 + x[3] \div 4, (x[3] % 4) * 64 + x[4]>>
         \o BytesOf(SubSeq(x, 5, Len(x)))

Base64Decode(s) == BytesOf(Sextets(s))

StrLength(v) == IF "length" \in DOMAIN v THEN v.length ELSE Len(v.s)

NoParamType == [type |-> "", typeName |-> ""]
IsBinaryTypeName(pt) == pt.typeName = "image" \/ pt.typeName = "varbinary"

\* the addParameter call made for params[index]
BindParameter(index, param, paramType) ==
  IF param.t = "null" \/ param.t = "undefined"
  THEN [name |-> index, type |-> (IF paramType.type # "" THEN paramType.type ELSE "NVarChar"),
        value |-> Null]
  ELSE IF param.t = "number"
  THEN [name |-> index, type |-> (IF param.isInteger THEN "Int" ELSE "Float"), value |-> param]
  ELSE IF param.t = "boolean"
  THEN [name |-> index, type |-> "Bit", value |-> param]
  ELSE IF param.t = "string"
  THEN IF IsBinaryTypeName(paramType)
       THEN IF StartsWith(param.s, "data:") /\ Includes(param.s, ";base64,")
            THEN [name |-> index, type |-> "VarBinary", value |-> Buffer(Base64Decode(Base64Part(param.s)))]
            ELSE [name |-> index, type |-> "VarBinary", value |-> Null]
       ELSE IF StrLength(param) > 4000
       THEN [name |-> index, type |-> "NText", value |-> param]
       ELSE [name |-> index, type |-> "NVarChar", value |-> param]
  ELSE IF IsBinaryTypeName(paramType)
       THEN [name |-> index, type |-> "VarBinary", value |-> Null]
       ELSE [name |-> index, type |-> "NVarChar", value |-> Str(StringOf(param))]

\* params.forEach((param, index) => ...): parameter index is the position
AddParameters(params, paramTypes) ==
  [i \in 1..Len(params) |->
     BindParameter(i - 1, params[i],
                   IF i <= Len(paramTypes) THEN paramTypes[i] ELSE NoParamType)]

\* ------------------------------------------------ insert / update build
identityColumns(columns) ==
  {columns[i].name : i \in {j \in 1..Len(columns) : columns[j].isIdentity = 1}}

columnDataTypes(columns, key) ==
  IF \E i \in 1..Len(columns) : columns[i].name = key
  THEN columns[CHOOSE i \in 1..Len(columns) : columns[i].name = key].dataType
  ELSE "nvarchar"

\* variant: every key counts as nullable
isNullableColumn_AlwaysTrue(columnName, columns) == TRUE

isNullableColumn(columnName, columns) ==
  IF \E i \in 1..Len(columns) : columns[i].name = columnName
  THEN LET first == CHOOSE i \in 1..Len(columns) :
                      /\ columns[i].name = columnName
                      /\ \A j \in 1..(i - 1) : columns[j].name # columnName
       IN columns[first].isNullable # 0
  ELSE FALSE

ParamTypeOf(columns, key) ==
  [type |-> getTypeFromSqlType(columnDataTypes(columns, key)),
   typeName |-> columnDataTypes(columns, key)]

\* variant: the identity test is missing
InsertKept_KeepsIdentity(data, columns) ==
  SelectSeq(ObjectKeys(PropNames(data)),
            LAMBDA key : Prop(data, key) # Null \/ isNullableColumn(key, columns))

\* keys of data kept by insertRecord, in the order the loop visits them
InsertKept(data, columns) ==
  SelectSeq(ObjectKeys(PropNames(data)),
            LAMBDA key : /\ key \notin identityColumns(columns)
                         /\ (Prop(data, key) # Null \/ isNullableColumn(key, columns)))

\* variant: updateRecord applies insertRecord's null filter
UpdateKept_DropsNulls(data, columns) ==
  SelectSeq(ObjectKeys(PropNames(data)),
            LAMBDA key : /\ key \notin identityColumns(columns)
                         /\ (Prop(data, key) # Null \/ isNullableColumn(key, columns)))

\* keys of data kept by updateRecord, in the order the loop visits them
UpdateKept(data, columns) ==
  SelectSeq(ObjectKeys(PropNames(data)),
            LAMBDA key : key \notin identityColumns(columns))

\* variant: paramTypes is pushed for every key, kept or not
InsertStatement_TypesUnfiltered(tableName, data, columns) ==
  LET kept == InsertKept(data, columns)
      cols == ObjectKeys(kept)
      values == [i \in 1..Len(cols) |-> Prop(data, cols[i])]
      all == ObjectKeys(PropNames(data))
      paramTypes == [i \in 1..Len(all) |-> ParamTypeOf(columns, all[i])]
  IN [kind |-> "INSERT", table |-> tableName, columns |-> cols,
      placeholders |-> [i \in 1..Len(cols) |-> i - 1],
      where |-> "", values |-> values, paramTypes |-> paramTypes,
      parameters |-> AddParameters(values, paramTypes)]

\* the statement insertRecord hands to executeQuery: filteredData is filled
\* in loop order, columns/values are its keys/values, paramTypes is pushed
\* in loop order
InsertStatement(tableName, data, columns) ==
  LET kept == InsertKept(data, columns)
      cols == ObjectKeys(kept)
      values == [i \in 1..Len(cols) |-> Prop(data, cols[i])]
      paramTypes == [i \in 1..Len(kept) |-> ParamTypeOf(columns, kept[i])]
  IN [kind |-> "INSERT", table |-> tableName, columns |-> cols,
      placeholders |-> [i \in 1..Len(cols) |-> i - 1],
      where |-> "", values |-> values, paramTypes |-> paramTypes,
      parameters |-> AddParameters(values, paramTypes)]

\* the statement updateRecord hands to executeQuery: the SET clause lists
\* Object.keys(filteredData); filteredValues and paramTypes are pushed in
\* loop order
UpdateStatement(tableName, data, whereCondition, columns) ==
  LET kept == UpdateKept(data, columns)
      cols == ObjectKeys(kept)
      values == [i \in 1..Len(kept) |-> Prop(data, kept[i])]
      paramTypes == [i \in 1..Len(kept) |-> ParamTypeOf(columns, kept[i])]
  IN [kind |-> "UPDATE", table |-> tableName, columns |-> cols,
      placeholders |-> [i \in 1..Len(cols) |-> i - 1],
      where |-> StringOf(whereCondition), values |-> values, paramTypes |-> paramTypes,
      parameters |-> AddParameters(values, paramTypes)]

DeleteStatement(tableName, whereCondition) ==
  [kind |-> "DELETE", table |-> tableName, columns |-> <<>>, placeholders |-> <<>>,
   where |-> StringOf(whereCondition), values |-> <<>>, paramTypes |-> <<>>,
   parameters |-> <<>>]

\* ------------------------------------------------------ getTableData
CountStatement(tableName, filter) ==
  [kind |-> "COUNT", table |-> tableName, filter |-> filter]

\* OFFSET (page - 1) * pageSize ROWS FETCH NEXT pageSize ROWS ONLY
ModernStatement(tableName, page, pageSize, orderBy, orderDirection, filter) ==
  [kind |-> "MODERN", table |-> tableName, filter |-> filter,
   orderBy |-> orderBy, orderDirection |-> orderDirection,
   offset |-> (page - 1) * pageSize, fetch |-> pageSize]

\* variant: the row-number range starts at the offset itself
LegacyStatement_OffByOne(tableName, page, pageSize, orderBy, orderDirection, filter) ==
  [kind |-> "LEGACY", table |-> tableName, filter |-> filter,
   orderBy |-> orderBy, orderDirection |-> orderDirection,
   lo |-> (page - 1) * pageSize, hi |-> page * pageSize]

\* WHERE RowNum BETWEEN (page - 1) * pageSize + 1 AND page * pageSize
LegacyStatement(tableName, page, pageSize, orderBy, orderDirection, filter) ==
  [kind |-> "LEGACY", table |-> tableName, filter |-> filter,
   orderBy |-> orderBy, orderDirection |-> orderDirection,
   lo |-> (page - 1) * pageSize + 1, hi |-> page * pageSize]

\* ------------------------------------------------------------ the engine
\* the filtered table under the requested order, as driver rows (a row is
\* the sequence of its columns); without orderBy the engine's own order
TableRow(i) == <<[colName |-> "Id", value |-> i], [colName |-> "CustomerId", value |-> i % 2]>>

OrderedRows(n, orderBy, orderDirection) ==
  [p \in 1..n |->
     IF orderBy # "" /\ orderDirection = "DESC" THEN TableRow(n + 1 - p) ELSE TableRow(p)]

\* 1-based positions of the ordered rows a statement selects
OffsetFetchPositions(n, offset, fetch) == {p \in 1..n : p > offset /\ p <= offset + fetch}
RowNumBetweenPositions(n, lo, hi) == {p \in 1..n : lo <= p /\ p <= hi}

RECURSIVE Ascending(_)
Ascending(S) ==
  IF S = {} THEN <<>>
  ELSE LET m == CHOOSE x \in S : \A y \in S : x <= y
       IN <<m>> \o Ascending(S \ {m})

\* rows the engine returns for SELECT * ... OFFSET/FETCH
ModernRows(rows, stmt) ==
  LET ps == Ascending(OffsetFetchPositions(Len(rows), stmt.offset, stmt.fetch))
  IN [i \in 1..Len(ps) |-> rows[ps[i]]]

\* rows the engine returns for SELECT * FROM NumberedRows WHERE RowNum
\* BETWEEN ...: the CTE's columns are RowNum followed by the table's
LegacyRows(rows, stmt) ==
  LET ps == Ascending(RowNumBetweenPositions(Len(rows), stmt.lo, stmt.hi))
  IN [i \in 1..Len(ps) |-> <<[colName |-> "RowNum", value |-> ps[i]]>> \o rows[ps[i]]]

\* executeQuery's conversion of a driver row to a plain object:
\* result[column.metadata.colName] = column.value, later columns overwrite
RowToObject(row) ==
  [c \in {row[i].colName : i \in 1..Len(row)} |->
     row[CHOOSE i \in 1..Len(row) :
           /\ row[i].colName = c
           /\ \A j \in (i + 1)..Len(row) : row[j].colName # c].value]

ConvertRows(rows) == [i \in 1..Len(rows) |-> RowToObject(rows[i])]

MetadataStatement(which, tableName) ==
  [kind |-> which, table |-> tableName, columns |-> <<>>, placeholders |-> <<>>,
   where |-> "", values |-> <<>>, paramTypes |-> <<>>, parameters |-> <<>>]

MetadataQueries == <<"columns", "primaryKeys", "foreignKeys">>

\* ------------------------------------------------------------------ state
VARIABLES
  pc,          \* where the request in progress is waiting
  req,         \* the request in progress
  connection,  \* "none", "open" or "closed": the request's connection
  metaStep,    \* which metadata query of getTableMetadata is in flight
  columns,     \* result of the columns query
  sent,        \* statements handed to connection.execSql, in order
  total,       \* getTableData's total
  modernError, \* the error caught from the modern data query
  response,    \* what the route answered
  \* one request seen at the driver: createConnection and executeQuery
  connState,    \* connection.state.name of the driver's Connection
  created,      \* createConnection's promise
  connectTimer, \* createConnection's 10 s timer is pending
  calls,        \* the executeQuery calls of getTableMetadata
  execLog,      \* connection.execSql calls: which call, in which state
  route,        \* where the route handler is
  outcome,      \* how the route answered
  \* the schema route: getAllTables, then getTableMetadata table by table
  schemaPc,           \* where the schema route is
  tables,             \* what getAllTables returned
  tableIndex,         \* position of the for..of loop in tables
  results,            \* results of the current table's three queries
  fetched,            \* per table visited: did its getTableMetadata resolve
  tablesWithMetadata, \* the route's accumulator
  schemaResponse,     \* what the schema route answered
  \* one value on its way from the form to a bound parameter
  coerceStep,   \* "input", "submitted" or "bound"
  sqlType,      \* the column's DATA_TYPE
  path,         \* who builds the payload: the form (create / update) or an API client
  existing,     \* update path: selectedRecord[key]
  entered,      \* the value entered
  payload,      \* the value in the request body
  paramType,    \* the ParamTypeInfo the server pairs with it
  binding,      \* the addParameter call made for it
  \* the table-data route from its query string on
  pageStep,     \* where the request is
  rawPage,      \* searchParams.get('page')
  rawPageSize,  \* searchParams.get('pageSize')
  parsed,       \* page and pageSize as getTableData receives them
  pageSent,     \* statements handed to executeQuery, in order
  pageResponse, \* what the route answered
  \* the page in the browser: Home, useSchema, useTableData
  selectedTable, \* useSchema's selectedTable ("" for null)
  currentPage,   \* Home's currentPage
  fetchLog,      \* the calls of fetchTableData, in order
  inflight,      \* the calls whose fetch has not answered yet
  tableData,     \* useTableData's tableData
  loading,       \* useTableData's loading
  dataError,     \* useTableData's error ("" for null)
  lastDone,      \* the call that completed last, and how
  \* executeQuery's readiness wait on a connection it does not own
  seenState,  \* connection.state.name
  waitPhase,  \* the wait's promise
  waitTimer,  \* the 15 s timer is pending
  pollTimer,  \* a 100 ms checkState timer is pending
  pollLog     \* the checkState timers set, each with whether the wait had settled

mainVars == <<pc, req, connection, metaStep, columns, sent, total, modernError, response>>
execVars == <<connState, created, connectTimer, calls, execLog, route, outcome>>
schemaVars == <<schemaPc, tables, tableIndex, results, fetched, tablesWithMetadata, schemaResponse>>
coerceVars == <<coerceStep, sqlType, path, existing, entered, payload, paramType, binding>>
pageVars == <<pageStep, rawPage, rawPageSize, parsed, pageSent, pageResponse>>
uiVars == <<selectedTable, currentPage, fetchLog, inflight, tableData, loading, dataError, lastDone>>
waitVars == <<seenState, waitPhase, waitTimer, pollTimer, pollLog>>
otherVars == <<execVars, schemaVars, coerceVars, pageVars, uiVars, waitVars>>
vars == <<mainVars, otherVars>>

NoCall == [phase |-> "notCalled", timeout |-> FALSE, poll |-> FALSE, error |-> ""]
ExecIdle ==
  /\ connState = "None"
  /\ created = "none"
  /\ connectTimer = FALSE
  /\ calls = [c \in 1..(Len(MetadataQueries) + 1) |-> NoCall]
  /\ execLog = <<>>
  /\ route = "idle"
  /\ outcome = "none"

NoResults == [q \in 1..Len(MetadataQueries) |-> <<>>]
SchemaIdle ==
  /\ schemaPc = "idle"
  /\ tables = <<>>
  /\ tableIndex = 0
  /\ results = NoResults
  /\ fetched = <<>>
  /\ tablesWithMetadata = <<>>
  /\ schemaResponse = [status |-> 0]

NoBinding == [name |-> 0, type |-> "", value |-> Undefined]
CoerceIdle ==
  /\ coerceStep = "idle"
  /\ sqlType = ""
  /\ path = ""
  /\ existing = Undefined
  /\ entered = Undefined
  /\ payload = Undefined
  /\ paramType = NoParamType
  /\ binding = NoBinding

NoError == [seq |-> 0, code |-> "none"]
ConnectError == [seq |-> 0, code |-> "connect"]
ErrorCodes == {"unsupported-syntax", "request-failed"}
\* the error the engine raises for the statement in flight
EngineErrors == {[seq |-> Len(sent), code |-> c] : c \in ErrorCodes}

NoRequest ==
  [method |-> "none", tableName |-> "", data |-> <<>>, whereCondition |-> Undefined,
   page |-> 1, pageSize |-> 1, orderBy |-> "", orderDirection |-> "ASC", filter |-> "",
   nrows |-> 0]
\* fields: the keys of the JSON body; the other components hold their values
NoResponse ==
  [status |-> 0, success |-> FALSE, error |-> "", cause |-> NoError, data |-> <<>>, total |-> 0,
   fields |-> {}]

Json(status, error) ==
  [status |-> status, success |-> FALSE, error |-> error, cause |-> NoError,
   data |-> <<>>, total |-> 0, fields |-> {"error"}]
Failure(error, cause) ==
  [status |-> 500, success |-> FALSE, error |-> error, cause |-> cause,
   data |-> <<>>, total |-> 0, fields |-> {"error"}]
Success ==
  [status |-> 200, success |-> TRUE, error |-> "", cause |-> NoError, data |-> <<>>, total |-> 0,
   fields |-> {"success"}]
Envelope(data, n) ==
  [status |-> 200, success |-> FALSE, error |-> "", cause |-> NoError, data |-> data, total |-> n,
   fields |-> {"data", "total"}]
\* the table-data route's catch: { data: [], total: 0, error: message }
DegradedEnvelope(error, cause) ==
  [status |-> 500, success |-> FALSE, error |-> error, cause |-> cause,
   data |-> <<>>, total |-> 0, fields |-> {"data", "total", "error"}]

TableNames == {"", "Orders"}

FailureMessage(method) ==
  CASE method = "POST" -> "Failed to create record"
    [] method = "PUT" -> "Failed to update record"
    [] method = "DELETE" -> "Failed to delete record"
    [] OTHER -> "Failed to fetch data"

Absent == [t |-> "null"]
PageIdle ==
  /\ pageStep = "idle"
  /\ rawPage = Absent
  /\ rawPageSize = Absent
  /\ parsed = [page |-> 0, pageSize |-> 0]
  /\ pageSent = <<>>
  /\ pageResponse = [status |-> 0]

NoData == [table |-> "", page |-> 0, total |-> 0]
UiIdle ==
  /\ selectedTable = ""
  /\ currentPage = 1
  /\ fetchLog = <<>>
  /\ inflight = {}
  /\ tableData = NoData
  /\ loading = FALSE
  /\ dataError = ""
  /\ lastDone = [call |-> 0, ok |-> TRUE]

WaitIdle ==
  /\ seenState = "None"
  /\ waitPhase = "notCalled"
  /\ waitTimer = FALSE
  /\ pollTimer = FALSE
  /\ pollLog = <<>>

MainIdle ==
  /\ pc = "idle"
  /\ req = NoRequest
  /\ connection = "none"
  /\ metaStep = 0
  /\ columns = <<>>
  /\ sent = <<>>
  /\ total = 0
  /\ modernError = NoError
  /\ response = NoResponse

Init ==
  /\ MainIdle
  /\ ExecIdle
  /\ SchemaIdle
  /\ CoerceIdle
  /\ PageIdle
  /\ UiIdle
  /\ WaitIdle

\* the route answers and its finally block closes the connection it holds
Respond(r) ==
  /\ response' = r
  /\ connection' = IF connection = "open" THEN "closed" ELSE connection
  /\ pc' = "done"

\* route entry of a write that needs metadata: POST and PUT run up to the
\* dispatch of the columns query
EnterWrite(r, whereOk) ==
  /\ req' = r
  /\ IF r.tableName = ""
     THEN /\ response' = Json(400, "Table name is required")
          /\ pc' = "done"
          /\ UNCHANGED <<connection, metaStep, sent>>
     ELSE \/ /\ response' = Failure(FailureMessage(r.method), ConnectError)
             /\ pc' = "done"
             /\ UNCHANGED <<connection, metaStep, sent>>
          \/ IF ~whereOk
             THEN /\ response' = Json(400, "Where condition is required for update")
                  /\ connection' = "closed"
                  /\ pc' = "done"
                  /\ UNCHANGED <<metaStep, sent>>
             ELSE /\ connection' = "open"
                  /\ sent' = <<MetadataStatement(MetadataQueries[1], r.tableName)>>
                  /\ metaStep' = 1
                  /\ pc' = "metadata"
                  /\ UNCHANGED response
  /\ UNCHANGED <<columns, total, modernError>>

POST ==
  /\ pc = "idle"
  /\ \E tableName \in TableNames, data \in Objects :
       EnterWrite([NoRequest EXCEPT !.method = "POST", !.tableName = tableName,
                                    !.data = data], TRUE)
  /\ UNCHANGED otherVars

PUT ==
  /\ pc = "idle"
  /\ \E tableName \in TableNames, data \in Objects, whereCondition \in PutWhereValues :
       EnterWrite([NoRequest EXCEPT !.method = "PUT", !.tableName = tableName,
                                    !.data = data, !.whereCondition = whereCondition],
                  Truthy(whereCondition))
  /\ UNCHANGED otherVars

DELETE ==
  /\ pc = "idle"
  /\ \E tableName \in TableNames, whereCondition \in DeleteWhereValues :
       LET r == [NoRequest EXCEPT !.method = "DELETE", !.tableName = tableName,
                                  !.whereCondition = whereCondition]
       IN /\ req' = r
          /\ IF tableName = ""
             THEN /\ response' = Json(400, "Table name is required")
                  /\ pc' = "done"
                  /\ UNCHANGED <<connection, sent>>
             ELSE \/ /\ response' = Failure(FailureMessage("DELETE"), ConnectError)
                     /\ pc' = "done"
                     /\ UNCHANGED <<connection, sent>>
                  \/ IF ~Truthy(whereCondition)
                     THEN /\ response' = Json(400, "Where condition is required for delete")
                          /\ connection' = "closed"
                          /\ pc' = "done"
                          /\ UNCHANGED sent
                     ELSE /\ connection' = "open"
                          /\ sent' = <<DeleteStatement(tableName, whereCondition)>>
                          /\ pc' = "write"
                          /\ UNCHANGED response
  /\ UNCHANGED <<metaStep, columns, total, modernError>>
  /\ UNCHANGED otherVars

\* a metadata query other than the last one completes; the next one, which
\* was polling for the LoggedIn state, is dispatched
metadataQueryOk ==
  /\ pc = "metadata"
  /\ metaStep < Len(MetadataQueries)
  /\ IF metaStep = 1 THEN columns' \in ColumnResults ELSE UNCHANGED columns
  /\ sent' = Append(sent, MetadataStatement(MetadataQueries[metaStep + 1], req.tableName))
  /\ metaStep' = metaStep + 1
  /\ UNCHANGED <<pc, req, connection, total, modernError, response>>
  /\ UNCHANGED otherVars

\* a metadata query fails: Promise.all rejects, insertRecord/updateRecord
\* rethrow, the route answers 500
metadataQueryFail ==
  /\ pc = "metadata"
  /\ \E e \in EngineErrors : Respond(Failure(FailureMessage(req.method), e))
  /\ UNCHANGED <<req, metaStep, columns, sent, total, modernError>>
  /\ UNCHANGED otherVars

\* variant: insertRecord without the empty-filteredData return
insertRecord_NoEmptyCheck ==
  /\ pc = "metadata"
  /\ metaStep = Len(MetadataQueries)
  /\ req.method = "POST"
  /\ sent' = Append(sent, InsertStatement(req.tableName, req.data, columns))
  /\ pc' = "write"
  /\ UNCHANGED <<connection, response>>
  /\ UNCHANGED <<req, metaStep, columns, total, modernError>>
  /\ UNCHANGED otherVars

\* the last metadata query completes and insertRecord continues
insertRecord ==
  /\ pc = "metadata"
  /\ metaStep = Len(MetadataQueries)
  /\ req.method = "POST"
  /\ IF InsertKept(req.data, columns) = <<>>
     THEN /\ Respond(Success)
          /\ UNCHANGED sent
     ELSE /\ sent' = Append(sent, InsertStatement(req.tableName, req.data, columns))
          /\ pc' = "write"
          /\ UNCHANGED <<connection, response>>
  /\ UNCHANGED <<req, metaStep, columns, total, modernError>>
  /\ UNCHANGED otherVars

\* the last metadata query completes and updateRecord continues
updateRecord ==
  /\ pc = "metadata"
  /\ metaStep = Len(MetadataQueries)
  /\ req.method = "PUT"
  /\ IF UpdateKept(req.data, columns) = <<>>
     THEN /\ Respond(Success)
          /\ UNCHANGED sent
     ELSE /\ sent' = Append(sent, UpdateStatement(req.tableName, req.data,
                                                   req.whereCondition, columns))
          /\ pc' = "write"
          /\ UNCHANGED <<connection, response>>
  /\ UNCHANGED <<req, metaStep, columns, total, modernError>>
  /\ UNCHANGED otherVars

\* the INSERT/UPDATE/DELETE statement completes
writeOk ==
  /\ pc = "write"
  /\ Respond(Success)
  /\ UNCHANGED <<req, metaStep, columns, sent, total, modernError>>
  /\ UNCHANGED otherVars

\* variant: the route answers success although the statement failed
writeFail_AnswersSuccess ==
  /\ pc = "write"
  /\ \E e \in EngineErrors : Respond([Success EXCEPT !.cause = e])
  /\ UNCHANGED <<req, metaStep, columns, sent, total, modernError>>
  /\ UNCHANGED otherVars

writeFail ==
  /\ pc = "write"
  /\ \E e \in EngineErrors : Respond(Failure(FailureMessage(req.method), e))
  /\ UNCHANGED <<req, metaStep, columns, sent, total, modernError>>
  /\ UNCHANGED otherVars

\* ------------------------------------------------------- table-data route
OrderBys == {"", "Id"}
OrderDirections == {"ASC", "DESC"}
Filters == {"", "Total > 0"}

\* route entry up to getTableData's dispatch of the count query
GET ==
  /\ pc = "idle"
  /\ \E tableName \in TableNames, page \in 1..MaxPage, pageSize \in 1..MaxPageSize,
        orderBy \in OrderBys, orderDirection \in OrderDirections, filter \in Filters,
        nrows \in 0..MaxRows :
       LET r == [NoRequest EXCEPT !.method = "GET", !.tableName = tableName,
                                  !.page = page, !.pageSize = pageSize,
                                  !.orderBy = orderBy, !.orderDirection = orderDirection,
                                  !.filter = filter, !.nrows = nrows]
       IN /\ req' = r
          /\ IF tableName = ""
             THEN /\ response' = Json(400, "Table name is required")
                  /\ pc' = "done"
                  /\ UNCHANGED <<connection, sent>>
             ELSE \/ /\ response' = DegradedEnvelope(FailureMessage("GET"), ConnectError)
                     /\ pc' = "done"
                     /\ UNCHANGED <<connection, sent>>
                  \/ /\ connection' = "open"
                     /\ sent' = <<CountStatement(tableName, filter)>>
                     /\ pc' = "count"
                     /\ UNCHANGED response
  /\ UNCHANGED <<metaStep, columns, total, modernError>>
  /\ UNCHANGED otherVars

\* the count query completes; total is countResult[0].total, or 0 when the
\* result has no row; the modern data query is dispatched
countOk ==
  /\ pc = "count"
  /\ \E countResult \in {<<>>, <<[total |-> req.nrows]>>} :
       total' = IF Len(countResult) > 0 THEN countResult[1].total ELSE 0
  /\ sent' = Append(sent, ModernStatement(req.tableName, req.page, req.pageSize,
                                           req.orderBy, req.orderDirection, req.filter))
  /\ pc' = "modern"
  /\ UNCHANGED <<req, connection, metaStep, columns, modernError, response>>
  /\ UNCHANGED otherVars

\* variant: the count error escapes the route with the generic error body
countFail_NoEnvelope ==
  /\ pc = "count"
  /\ \E e \in EngineErrors : Respond(Failure(FailureMessage("GET"), e))
  /\ UNCHANGED <<req, metaStep, columns, sent, total, modernError>>
  /\ UNCHANGED otherVars

\* the count query fails: getTableData rethrows, the route answers the
\* degraded envelope
countFail ==
  /\ pc = "count"
  /\ \E e \in EngineErrors : Respond(DegradedEnvelope(FailureMessage("GET"), e))
  /\ UNCHANGED <<req, metaStep, columns, sent, total, modernError>>
  /\ UNCHANGED otherVars

\* the modern data query completes
modernOk ==
  /\ pc = "modern"
  /\ Respond(Envelope(ConvertRows(ModernRows(
                OrderedRows(req.nrows, req.orderBy, req.orderDirection),
                sent[Len(sent)])), total))
  /\ UNCHANGED <<req, metaStep, columns, sent, total, modernError>>
  /\ UNCHANGED otherVars

\* variant: no fallback, the modern error is rethrown
modernFail_NoFallback ==
  /\ pc = "modern"
  /\ modernError' \in EngineErrors
  /\ Respond(Failure(FailureMessage("GET"), modernError'))
  /\ UNCHANGED <<req, metaStep, columns, sent, total>>
  /\ UNCHANGED otherVars

\* the modern data query fails: the catch block dispatches the legacy query
modernFail ==
  /\ pc = "modern"
  /\ modernError' \in EngineErrors
  /\ sent' = Append(sent, LegacyStatement(req.tableName, req.page, req.pageSize,
                                           req.orderBy, req.orderDirection, req.filter))
  /\ pc' = "legacy"
  /\ UNCHANGED <<req, connection, metaStep, columns, total, response>>
  /\ UNCHANGED otherVars

\* variant: the fallback reports the number of rows of the page as total
legacyOk_OwnTotal ==
  /\ pc = "legacy"
  /\ LET data == ConvertRows(LegacyRows(
                    OrderedRows(req.nrows, req.orderBy, req.orderDirection),
                    sent[Len(sent)]))
     IN Respond(Envelope(data, Len(data)))
  /\ UNCHANGED <<req, metaStep, columns, sent, total, modernError>>
  /\ UNCHANGED otherVars

\* the legacy data query completes
legacyOk ==
  /\ pc = "legacy"
  /\ Respond(Envelope(ConvertRows(LegacyRows(
                OrderedRows(req.nrows, req.orderBy, req.orderDirection),
                sent[Len(sent)])), total))
  /\ UNCHANGED <<req, metaStep, columns, sent, total, modernError>>
  /\ UNCHANGED otherVars

\* variant: the first error is rethrown after the fallback failed
legacyFail_ThrowsFirst ==
  /\ pc = "legacy"
  /\ Respond(Failure(FailureMessage("GET"), modernError))
  /\ UNCHANGED <<req, metaStep, columns, sent, total, modernError>>
  /\ UNCHANGED otherVars

\* the legacy data query fails too: its error leaves getTableData
legacyFail ==
  /\ pc = "legacy"
  /\ \E e \in EngineErrors : Respond(DegradedEnvelope(FailureMessage("GET"), e))
  /\ UNCHANGED <<req, metaStep, columns, sent, total, modernError>>
  /\ UNCHANGED otherVars

\* the response has been delivered; the next request starts from scratch
finish ==
  /\ pc = "done"
  /\ pc' = "idle"
  /\ req' = NoRequest
  /\ connection' = "none"
  /\ metaStep' = 0
  /\ columns' = <<>>
  /\ sent' = <<>>
  /\ total' = 0
  /\ modernError' = NoError
  /\ response' = NoResponse
  /\ UNCHANGED otherVars

Next ==
  \/ POST \/ PUT \/ DELETE \/ GET
  \/ metadataQueryOk \/ metadataQueryFail
  \/ insertRecord \/ updateRecord
  \/ writeOk \/ writeFail
  \/ countOk \/ countFail
  \/ modernOk \/ modernFail
  \/ legacyOk \/ legacyFail
  \/ finish

Spec == Init /\ [][Next]_vars

TypeOK ==
  /\ pc \in {"idle", "metadata", "write", "count", "modern", "legacy", "done"}
  /\ connection \in {"none", "open", "closed"}
  /\ metaStep \in 0..Len(MetadataQueries)

\* ------------------------------------------ one request at the driver
\* The POST route seen at the level of the driver's Connection:
\* createConnection, the executeQuery calls of getTableMetadata (started
\* together by Promise.all) and of the INSERT, and the route's finally.
\* Timers fire at any moment after they are armed; the driver answers a
\* handed statement when it pleases, or not at all.
ExecCalls == MetadataQueries \o <<"INSERT">>
WriteCall == Len(ExecCalls)
MetadataCalls == 1..Len(MetadataQueries)

ExecState == [connState |-> connState, calls |-> calls, execLog |-> execLog,
              route |-> route, outcome |-> outcome]

InFlight(cs) == {c \in DOMAIN cs : cs[c].phase = "dispatched"}

\* connection.execSql(request): the statement of call c is handed to the
\* driver and awaits its completion callback
ExecSql(st, c) ==
  [st EXCEPT !.execLog = Append(@, [call |-> c, state |-> st.connState,
                                    inflight |-> InFlight(st.calls)]),
             !.connState = IF @ = "LoggedIn" THEN "SentClientRequest" ELSE @,
             !.calls[c].phase = "dispatched"]

\* variant: executeQuery without the readiness wait
ExecuteQueryEntry_NoWait(st, c) == ExecSql(st, c)

\* executeQuery(connection, ...) up to its first suspension: the statement
\* is handed over at once when the connection is LoggedIn; otherwise the
\* 15 s timer is armed and checkState runs for the first time
ExecuteQueryEntry(st, c) ==
  IF st.connState = "LoggedIn"
  THEN ExecSql(st, c)
  ELSE IF st.connState = "Final"
  THEN [st EXCEPT !.calls[c] = [phase |-> "rejected", timeout |-> FALSE, poll |-> FALSE,
                                error |-> "closed"]]
  ELSE [st EXCEPT !.calls[c] = [phase |-> "waiting", timeout |-> TRUE, poll |-> TRUE,
                                error |-> ""]]

\* the route returns or throws: its answer, then finally { connection.close() }
RouteEnds(st, how) ==
  [st EXCEPT !.route = "done", !.outcome = how, !.connState = "Final"]

\* variant: the INSERT is executed once the metadata calls have settled,
\* however they settled
Continue_IgnoresRejection(st) ==
  IF st.route # "fetching" THEN st
  ELSE IF \E c \in MetadataCalls : st.calls[c].phase \notin {"resolved", "rejected"}
  THEN st
  ELSE LET w == IF st.calls[WriteCall].phase = "notCalled"
                THEN ExecuteQueryEntry(st, WriteCall) ELSE st
       IN IF w.calls[WriteCall].phase = "resolved" THEN RouteEnds(w, "success")
          ELSE IF w.calls[WriteCall].phase = "rejected" THEN RouteEnds(w, "failure")
          ELSE w

\* what the awaiting code does once calls have settled: Promise.all rejects
\* on the first rejection and insertRecord rethrows; when the three
\* metadata calls have resolved the INSERT is executed; its settlement
\* ends the route
Continue(st) ==
  IF st.route # "fetching" THEN st
  ELSE IF \E c \in MetadataCalls : st.calls[c].phase = "rejected"
  THEN RouteEnds(st, "failure")
  ELSE IF \E c \in MetadataCalls : st.calls[c].phase # "resolved"
  THEN st
  ELSE LET w == IF st.calls[WriteCall].phase = "notCalled"
                THEN ExecuteQueryEntry(st, WriteCall) ELSE st
       IN IF w.calls[WriteCall].phase = "resolved" THEN RouteEnds(w, "success")
          ELSE IF w.calls[WriteCall].phase = "rejected" THEN RouteEnds(w, "failure")
          ELSE w

SetExec(st) ==
  /\ connState' = st.connState
  /\ calls' = st.calls
  /\ execLog' = st.execLog
  /\ route' = st.route
  /\ outcome' = st.outcome

\* the route calls createConnection: new Connection, 10 s timer, connect()
createConnection ==
  /\ route = "idle"
  /\ connState' = "Connecting"
  /\ created' = "pending"
  /\ connectTimer' = TRUE
  /\ route' = "connecting"
  /\ UNCHANGED <<calls, execLog, outcome>>
  /\ UNCHANGED <<mainVars, schemaVars, coerceVars, pageVars, uiVars, waitVars>>

\* 'connect' event without error: resolve(connection); the route holds the
\* connection only if the promise was still pending
connectOk ==
  /\ connState = "Connecting"
  /\ connState' = "LoggedIn"
  /\ IF created = "pending"
     THEN created' = "resolved" /\ route' = "connected"
     ELSE UNCHANGED <<created, route>>
  /\ UNCHANGED <<connectTimer, calls, execLog, outcome>>
  /\ UNCHANGED <<mainVars, schemaVars, coerceVars, pageVars, uiVars, waitVars>>

\* 'connect' event with an error: reject(err); the route's catch answers
\* and its finally finds no connection to close
connectErr ==
  /\ connState = "Connecting"
  /\ connState' = "Final"
  /\ IF created = "pending"
     THEN created' = "rejected" /\ route' = "done" /\ outcome' = "failure"
     ELSE UNCHANGED <<created, route, outcome>>
  /\ UNCHANGED <<connectTimer, calls, execLog>>
  /\ UNCHANGED <<mainVars, schemaVars, coerceVars, pageVars, uiVars, waitVars>>

\* variant: createConnection without its timer's reject
connectTimeout_NoReject ==
  /\ connectTimer = TRUE
  /\ connectTimer' = FALSE
  /\ UNCHANGED <<connState, created, route, outcome, calls, execLog>>
  /\ UNCHANGED <<mainVars, schemaVars, coerceVars, pageVars, uiVars, waitVars>>

\* the 10 s timer fires: reject unless the connection is LoggedIn; the
\* Connection object itself is left as it is
connectTimeout ==
  /\ connectTimer = TRUE
  /\ connectTimer' = FALSE
  /\ IF connState # "LoggedIn" /\ created = "pending"
     THEN created' = "rejected" /\ route' = "done" /\ outcome' = "failure"
     ELSE UNCHANGED <<created, route, outcome>>
  /\ UNCHANGED <<connState, calls, execLog>>
  /\ UNCHANGED <<mainVars, schemaVars, coerceVars, pageVars, uiVars, waitVars>>

\* insertRecord -> getTableMetadata: Promise.all starts the three
\* executeQuery calls one after the other in the same turn
getTableMetadata ==
  /\ route = "connected"
  /\ LET s0 == [ExecState EXCEPT !.route = "fetching"]
         s1 == ExecuteQueryEntry(s0, 1)
         s2 == ExecuteQueryEntry(s1, 2)
         s3 == ExecuteQueryEntry(s2, 3)
     IN SetExec(Continue(s3))
  /\ UNCHANGED <<created, connectTimer>>
  /\ UNCHANGED <<mainVars, schemaVars, coerceVars, pageVars, uiVars, waitVars>>

\* variant: checkState takes every state but Final for ready
checkState_AnyOpenState(c) ==
  /\ calls[c].poll = TRUE
  /\ IF connState # "Final"
     THEN LET st == [ExecState EXCEPT !.calls[c].poll = FALSE, !.calls[c].timeout = FALSE]
          IN SetExec(Continue(IF calls[c].phase = "waiting" THEN ExecSql(st, c) ELSE st))
     ELSE LET st == [ExecState EXCEPT !.calls[c].poll = FALSE, !.calls[c].timeout = FALSE]
          IN SetExec(Continue(IF calls[c].phase = "waiting"
                              THEN [st EXCEPT !.calls[c].phase = "rejected",
                                              !.calls[c].error = "closed"]
                              ELSE st))
  /\ UNCHANGED <<created, connectTimer>>
  /\ UNCHANGED <<mainVars, schemaVars, coerceVars, pageVars, uiVars, waitVars>>

\* the 100 ms poll of call c fires: LoggedIn resolves the wait and the
\* statement is handed over, Final rejects it, any other state polls again;
\* a wait already rejected by its timeout no longer reacts to resolve/reject
checkState(c) ==
  /\ calls[c].poll = TRUE
  /\ IF connState = "LoggedIn"
     THEN LET st == [ExecState EXCEPT !.calls[c].poll = FALSE, !.calls[c].timeout = FALSE]
          IN SetExec(Continue(IF calls[c].phase = "waiting" THEN ExecSql(st, c) ELSE st))
     ELSE IF connState = "Final"
     THEN LET st == [ExecState EXCEPT !.calls[c].poll = FALSE, !.calls[c].timeout = FALSE]
          IN SetExec(Continue(IF calls[c].phase = "waiting"
                              THEN [st EXCEPT !.calls[c].phase = "rejected",
                                              !.calls[c].error = "closed"]
                              ELSE st))
     ELSE UNCHANGED execVars
  /\ UNCHANGED <<created, connectTimer>>
  /\ UNCHANGED <<mainVars, schemaVars, coerceVars, pageVars, uiVars, waitVars>>

\* the 15 s timer of call c's readiness wait fires: reject; checkState's
\* own timer is not cancelled
waitTimeout(c) ==
  /\ calls[c].timeout = TRUE
  /\ LET st == [ExecState EXCEPT !.calls[c].timeout = FALSE]
     IN SetExec(Continue(IF calls[c].phase = "waiting"
                         THEN [st EXCEPT !.calls[c].phase = "rejected",
                                         !.calls[c].error = "timeout"]
                         ELSE st))
  /\ UNCHANGED <<created, connectTimer>>
  /\ UNCHANGED <<mainVars, schemaVars, coerceVars, pageVars, uiVars, waitVars>>

\* the driver completes the statement of call c: the connection is LoggedIn
\* again and the Request callback resolves the call
requestOk(c) ==
  /\ calls[c].phase = "dispatched"
  /\ connState = "SentClientRequest"
  /\ SetExec(Continue([ExecState EXCEPT !.connState = "LoggedIn",
                                         !.calls[c].phase = "resolved"]))
  /\ UNCHANGED <<created, connectTimer>>
  /\ UNCHANGED <<mainVars, schemaVars, coerceVars, pageVars, uiVars, waitVars>>

\* the driver fails the statement of call c: Request callback with err
requestFail(c) ==
  /\ calls[c].phase = "dispatched"
  /\ SetExec(Continue([ExecState EXCEPT
                 !.connState = IF @ = "SentClientRequest" THEN "LoggedIn" ELSE @,
                 !.calls[c].phase = "rejected", !.calls[c].error = "query"]))
  /\ UNCHANGED <<created, connectTimer>>
  /\ UNCHANGED <<mainVars, schemaVars, coerceVars, pageVars, uiVars, waitVars>>

\* the connection is lost (socket error, 'error' event): its state is Final
\* from now on; createConnection's reject finds the promise settled
connectionLost ==
  /\ connState \in {"LoggedIn", "SentClientRequest"}
  /\ connState' = "Final"
  /\ UNCHANGED <<created, connectTimer, calls, execLog, route, outcome>>
  /\ UNCHANGED <<mainVars, schemaVars, coerceVars, pageVars, uiVars, waitVars>>

ExecNext ==
  \/ createConnection \/ connectOk \/ connectErr \/ connectTimeout
  \/ getTableMetadata
  \/ \E c \in DOMAIN ExecCalls : checkState(c)
  \/ \E c \in DOMAIN ExecCalls : waitTimeout(c)
  \/ \E c \in DOMAIN ExecCalls : requestOk(c)
  \/ \E c \in DOMAIN ExecCalls : requestFail(c)
  \/ connectionLost

ExecSpec == Init /\ [][ExecNext]_vars

\* ---------------------------------------------------------------- claims
\* vocabulary of the properties, stated on the state alone
SentOfKind(kind) == {i \in 1..Len(sent) : sent[i].kind = kind}
IsIdentityColumn(k) ==
  \E c \in 1..Len(columns) : columns[c].name = k /\ columns[c].isIdentity = 1
IsNullable(k) ==
  \E c \in 1..Len(columns) : columns[c].name = k /\ columns[c].isNullable = 1
DataKeys == {req.data[i].k : i \in 1..Len(req.data)}
ValueOf(k) == req.data[CHOOSE i \in 1..Len(req.data) : req.data[i].k = k].v
DeclaredType(k) ==
  IF \E c \in 1..Len(columns) : columns[c].name = k
  THEN columns[CHOOSE c \in 1..Len(columns) : columns[c].name = k].dataType
  ELSE "nvarchar"
\* the metadata fetch of the write in progress has succeeded and the
\* insertRecord/updateRecord continuation has run
WriteBuilt ==
  /\ req.method \in {"POST", "PUT"}
  /\ metaStep = Len(MetadataQueries)
  /\ pc \in {"write", "done"}
  /\ ~(response.status = 500 /\ response.cause.seq = Len(MetadataQueries))

\* C1: the INSERT statement built by insertRecord never lists a column
\* whose metadata has isIdentity set, whatever the record contains
C1_InsertOmitsIdentity ==
  \A i \in SentOfKind("INSERT") :
    \A j \in 1..Len(sent[i].columns) : ~IsIdentityColumn(sent[i].columns[j])

\* C1 witness: an INSERT was sent for a record that carries an identity
\* column's key next to other keys
C1_Witness ==
  /\ SentOfKind("INSERT") # {}
  /\ \E k \in DataKeys : IsIdentityColumn(k)

C4_EmptyWhereRejected ==
  /\ \A i \in SentOfKind("UPDATE") \cup SentOfKind("DELETE") : sent[i].where # ""
  /\ (pc = "done" /\ req.method \in {"PUT", "DELETE"} /\ req.tableName # ""
        /\ response.cause = NoError /\ StringOf(req.whereCondition) = "")
       => response.status = 400

\* C5: when every key of the record is filtered out, insertRecord and
\* updateRecord return normally and send no INSERT or UPDATE
C5_EmptyIsNoOp ==
  (/\ WriteBuilt
   /\ IF req.method = "POST"
      THEN \A k \in DataKeys : IsIdentityColumn(k) \/ (ValueOf(k) = Null /\ ~IsNullable(k))
      ELSE \A k \in DataKeys : IsIdentityColumn(k))
  => /\ pc = "done"
     /\ response = Success
     /\ SentOfKind("INSERT") \cup SentOfKind("UPDATE") = {}

\* C5 witness: a non-empty record, all of whose keys were filtered out,
\* answered with success after the metadata queries only
C5_Witness ==
  /\ WriteBuilt
  /\ DataKeys # {}
  /\ response = Success
  /\ Len(sent) = Len(MetadataQueries)

PageRange ==
  {p \in 1..req.nrows : (req.page - 1) * req.pageSize + 1 <= p /\ p <= req.page * req.pageSize}
\* the Id of the row at position p under the requested order
IdAt(p) ==
  IF req.orderBy # "" /\ req.orderDirection = "DESC" THEN req.nrows + 1 - p ELSE p
SameInputs(stmt) ==
  /\ stmt.table = req.tableName
  /\ stmt.filter = req.filter
  /\ stmt.orderBy = req.orderBy
  /\ stmt.orderDirection = req.orderDirection

\* C7: the modern query is attempted first; if it fails the legacy query
\* is executed for the same table, filter, order, page and pageSize and its
\* rows are returned without the first failure reaching the caller; the
\* legacy query is never executed when the modern query succeeds
C7_ModernThenLegacy ==
  /\ \A i \in SentOfKind("LEGACY") :
       /\ i > 1 /\ sent[i - 1].kind = "MODERN"
       /\ modernError # NoError /\ modernError.seq = i - 1
       /\ SameInputs(sent[i]) /\ SameInputs(sent[i - 1])
       /\ sent[i].lo = (req.page - 1) * req.pageSize + 1
       /\ sent[i].hi = req.page * req.pageSize
  /\ modernError # NoError => SentOfKind("LEGACY") # {}
  /\ (pc = "done" /\ modernError # NoError) => response.cause # modernError
  /\ (pc = "done" /\ modernError # NoError /\ response.cause = NoError) =>
       /\ response.status = 200 /\ response.error = ""
       /\ Len(response.data) = Cardinality(PageRange)
       /\ \A i \in 1..Len(response.data) :
            response.data[i].Id = IdAt((req.page - 1) * req.pageSize + i)
  /\ (pc = "done" /\ req.method = "GET" /\ response.status = 200
        /\ modernError = NoError) => SentOfKind("LEGACY") = {}

\* C7 witness: the modern query failed and the caller received the rows of
\* the legacy query
C7_Witness ==
  /\ pc = "done"
  /\ modernError # NoError
  /\ response.status = 200
  /\ Len(response.data) > 0

C9_SamePositions ==
  (req.page >= 1 /\ req.pageSize >= 1) =>
    /\ \A i \in SentOfKind("MODERN") :
         OffsetFetchPositions(req.nrows, sent[i].offset, sent[i].fetch) = PageRange
    /\ \A i \in SentOfKind("LEGACY") :
         RowNumBetweenPositions(req.nrows, sent[i].lo, sent[i].hi) = PageRange

\* C9 witness: both statements were sent for a page past the first that
\* the table fills only partly
C9_Witness ==
  /\ SentOfKind("MODERN") # {} /\ SentOfKind("LEGACY") # {}
  /\ req.page > 1
  /\ PageRange # {}
  /\ Cardinality(PageRange) < req.pageSize

\* C10 (as claimed): the records returned through the legacy fallback are
\* the records the modern strategy returns for the same inputs: same
\* records, same fields, same order
C10_LegacyRecordsIdentical ==
  (pc = "done" /\ response.status = 200 /\ SentOfKind("LEGACY") # {}) =>
    response.data =
      ConvertRows(ModernRows(OrderedRows(req.nrows, req.orderBy, req.orderDirection),
                             sent[CHOOSE i \in SentOfKind("MODERN") : TRUE]))

\* C11: the table-data read path never raises to its caller: whenever a
\* step fails (connection, count query, both pagination attempts) the
\* answer is the envelope with data = [], total = 0 and an error message
C11_DegradedEnvelope ==
  (pc = "done" /\ req.method = "GET" /\ response.cause # NoError) =>
    /\ response.fields = {"data", "total", "error"}
    /\ response.data = <<>>
    /\ response.total = 0
    /\ response.error # ""

\* C11 witness: the count query had reported rows, then both pagination
\* attempts failed
C11_Witness ==
  /\ pc = "done"
  /\ req.method = "GET"
  /\ total > 0
  /\ SentOfKind("LEGACY") # {}
  /\ response.cause.seq \in SentOfKind("LEGACY")


\* ------------------------------------------------- the schema route
\* GET of the schema route: createConnection, getAllTables, then one
\* getTableMetadata per table inside its own try/catch.  The three queries
\* of a table answer in the order they were started (they are serialized on
\* the connection); any of them may be the first to reject, and Promise.all
\* then rejects at once, whatever the other two do later.
SchemaTables == <<"Customers", "Orders", "Products", "Suppliers">>

\* getAllTables orders by TABLE_NAME: any selection of the tables, in order
TableLists ==
  {SelectSeq(SchemaTables, LAMBDA t : t \in S) : S \in SUBSET Range(SchemaTables)}

\* the rows the engine returns for query q about table t
QueryResult(t, q) == <<[table |-> t, query |-> MetadataQueries[q]]>>

TableMetadata(t, rs) ==
  [name |-> t, columns |-> rs[1], primaryKeys |-> rs[2], foreignKeys |-> rs[3]]

SchemaAnswer(r) ==
  /\ schemaPc' = "done"
  /\ schemaResponse' = r

\* the loop moves on from table tableIndex with accumulator acc
NextTable(acc, ok) ==
  /\ tablesWithMetadata' = acc
  /\ fetched' = Append(fetched, ok)
  /\ results' = NoResults
  /\ IF tableIndex = Len(tables)
     THEN /\ SchemaAnswer([status |-> 200, tables |-> acc])
          /\ UNCHANGED tableIndex
     ELSE /\ tableIndex' = tableIndex + 1
          /\ UNCHANGED <<schemaPc, schemaResponse>>

schemaGET ==
  /\ schemaPc = "idle"
  /\ schemaPc' = "connecting"
  /\ UNCHANGED <<tables, tableIndex, results, fetched, tablesWithMetadata, schemaResponse>>
  /\ UNCHANGED <<mainVars, execVars, coerceVars, pageVars, uiVars, waitVars>>

schemaConnectOk ==
  /\ schemaPc = "connecting"
  /\ schemaPc' = "listing"
  /\ UNCHANGED <<tables, tableIndex, results, fetched, tablesWithMetadata, schemaResponse>>
  /\ UNCHANGED <<mainVars, execVars, coerceVars, pageVars, uiVars, waitVars>>

schemaConnectFail ==
  /\ schemaPc = "connecting"
  /\ SchemaAnswer([status |-> 500, error |-> "Failed to fetch database schema",
                   cause |-> "createConnection"])
  /\ UNCHANGED <<tables, tableIndex, results, fetched, tablesWithMetadata>>
  /\ UNCHANGED <<mainVars, execVars, coerceVars, pageVars, uiVars, waitVars>>

getAllTablesOk ==
  /\ schemaPc = "listing"
  /\ \E ts \in TableLists :
       /\ tables' = ts
       /\ IF ts = <<>>
          THEN /\ SchemaAnswer([status |-> 200, tables |-> <<>>])
               /\ UNCHANGED tableIndex
          ELSE /\ schemaPc' = "table"
               /\ tableIndex' = 1
               /\ UNCHANGED schemaResponse
  /\ UNCHANGED <<results, fetched, tablesWithMetadata>>
  /\ UNCHANGED <<mainVars, execVars, coerceVars, pageVars, uiVars, waitVars>>

getAllTablesFail ==
  /\ schemaPc = "listing"
  /\ SchemaAnswer([status |-> 500, error |-> "Failed to fetch database schema",
                   cause |-> "getAllTables"])
  /\ UNCHANGED <<tables, tableIndex, results, fetched, tablesWithMetadata>>
  /\ UNCHANGED <<mainVars, execVars, coerceVars, pageVars, uiVars, waitVars>>

\* the next query of the current table returns its rows; with the third
\* result Promise.all resolves and the metadata is pushed
tableQueryOk ==
  /\ schemaPc = "table"
  /\ LET q == CHOOSE k \in 1..Len(MetadataQueries) :
                 /\ results[k] = <<>>
                 /\ \A j \in 1..(k - 1) : results[j] # <<>>
         rs == [results EXCEPT ![q] = QueryResult(tables[tableIndex], q)]
     IN IF q = Len(MetadataQueries)
        THEN NextTable(Append(tablesWithMetadata, TableMetadata(tables[tableIndex], rs)), TRUE)
        ELSE /\ results' = rs
             /\ UNCHANGED <<schemaPc, tableIndex, fetched, tablesWithMetadata, schemaResponse>>
  /\ UNCHANGED tables
  /\ UNCHANGED <<mainVars, execVars, coerceVars, pageVars, uiVars, waitVars>>

\* variant: no try/catch around getTableMetadata
tableQueryFail_Aborts(q) ==
  /\ schemaPc = "table"
  /\ results[q] = <<>>
  /\ fetched' = Append(fetched, FALSE)
  /\ SchemaAnswer([status |-> 500, error |-> "Failed to fetch database schema",
                   cause |-> "getTableMetadata"])
  /\ UNCHANGED <<tables, tableIndex, results, tablesWithMetadata>>
  /\ UNCHANGED <<mainVars, execVars, coerceVars, pageVars, uiVars, waitVars>>

\* a query of the current table that has not answered yet rejects:
\* getTableMetadata rejects, the catch logs and the loop continues
tableQueryFail(q) ==
  /\ schemaPc = "table"
  /\ results[q] = <<>>
  /\ NextTable(tablesWithMetadata, FALSE)
  /\ UNCHANGED tables
  /\ UNCHANGED <<mainVars, execVars, coerceVars, pageVars, uiVars, waitVars>>

SchemaNext ==
  \/ schemaGET \/ schemaConnectOk \/ schemaConnectFail
  \/ getAllTablesOk \/ getAllTablesFail
  \/ tableQueryOk
  \/ \E q \in 1..Len(MetadataQueries) : tableQueryFail(q)

SchemaSpec == Init /\ [][SchemaNext]_vars

\* ------------------------------------- from the form to the parameter
\* One value for one column: the record form (handleSaveRecord) or another
\* API client puts it into the request body, insertRecord / updateRecord
\* pair it with the column's ParamTypeInfo and executeQuery binds it.
SqlTypes ==
  {"int", "bigint", "smallint", "tinyint", "bit", "decimal", "float", "nvarchar",
   "varchar", "datetime", "image", "binary", "varbinary"}

DataUri == "data:image/png;base64,QUJD"

\* what a form field holds: text
EnteredValues ==
  {Str("true"), Str("false"), Str("yes"), Str(""), Str("12"), Str("-3"), Str("1.5"),
   Str("abc"), Str(DataUri), Str("QUJD")}

\* what a client of the API may put into the JSON body
ApiValues == EnteredValues \cup {Null, Num(1), Bool(TRUE)}

Paths == {"create", "update", "api"}

\* selectedRecord[key] as the table-data route delivered it: null, or the
\* JSON rendering of the driver's value (bigint arrives as a string)
ExistingValues(t) ==
  {Null} \cup
    (IF t \in {"int", "smallint", "tinyint", "decimal", "float"} THEN {Num(3)}
     ELSE IF t = "bit" THEN {Bool(TRUE)}
     ELSE {Str("abc")})

NaN == [t |-> "number", nan |-> TRUE, isInteger |-> FALSE]
IsDigits(s) == Len(s) > 0 /\ \A i \in 1..Len(s) : IsDigit(SubSeq(s, i, i))
AllZeros(s) == \A i \in 1..Len(s) : SubSeq(s, i, i) = "0"

\* Number(text) for text without white space, exponent, radix prefix or
\* "Infinity": an optional sign, digits, an optional fraction; the empty
\* string is 0; anything else is NaN
NumberOf(s) ==
  LET neg == Len(s) > 0 /\ SubSeq(s, 1, 1) = "-"
      u == IF neg \/ (Len(s) > 0 /\ SubSeq(s, 1, 1) = "+") THEN SubSeq(s, 2, Len(s)) ELSE s
      dots == {i \in 1..Len(u) : SubSeq(u, i, i) = "."}
      sign(n) == IF neg THEN 0 - n ELSE n
  IN IF s = "" THEN Num(0)
     ELSE IF IsDigits(u) THEN Num(sign(IndexValue(u)))
     ELSE IF Cardinality(dots) # 1 THEN NaN
     ELSE LET d == CHOOSE i \in dots : TRUE
              int == SubSeq(u, 1, d - 1)
              frac == SubSeq(u, d + 1, Len(u))
          IN IF (int = "" /\ frac = "") \/ (int # "" /\ ~IsDigits(int))
                \/ (frac # "" /\ ~IsDigits(frac))
             THEN NaN
             ELSE IF AllZeros(frac) THEN Num(sign(IndexValue(int)))
             ELSE [t |-> "number", n |-> sign(IndexValue(int)), frac |-> frac,
                   isInteger |-> FALSE]

NumberOrNull(v) == IF NumberOf(v.s) = NaN THEN Null ELSE NumberOf(v.s)

BooleanOf(v) ==
  IF v = Str("true") THEN Bool(TRUE)
  ELSE IF v = Str("false") THEN Bool(FALSE)
  ELSE Bool(Truthy(v))

\* new Date(text).toISOString(): the engine's date parser decides whether
\* the text is a date (an ISO string) or not (RangeError, caught: null)
IsoStrings(v) == {Null, [t |-> "string", s |-> v.s, iso |-> TRUE]}

\* create path: cleanData[column.name], by the column's data type
CreateClean(dataType, value) ==
  IF value = Null \/ value = Str("") THEN {Null}
  ELSE IF \E w \in {"int", "decimal", "numeric", "float", "real", "money"} :
            Includes(dataType, w)
  THEN {NumberOrNull(value)}
  ELSE IF Includes(dataType, "bit") \/ Includes(dataType, "boolean")
  THEN {BooleanOf(value)}
  ELSE IF Includes(dataType, "date") \/ Includes(dataType, "time")
  THEN IsoStrings(value)
  ELSE {value}

\* update path: cleanData[key], by the type of the value the record has
UpdateClean(old, value) ==
  IF old.t = "number" THEN {NumberOrNull(value)}
  ELSE IF old.t = "boolean" THEN {BooleanOf(value)}
  ELSE {value}

CoerceInit ==
  /\ MainIdle /\ ExecIdle /\ SchemaIdle /\ PageIdle /\ UiIdle /\ WaitIdle
  /\ coerceStep = "input"
  /\ sqlType \in SqlTypes
  /\ path \in Paths
  /\ existing \in (IF path = "update" THEN ExistingValues(sqlType) ELSE {Undefined})
  /\ entered \in (IF path = "api" THEN ApiValues ELSE EnteredValues)
  /\ payload = Undefined
  /\ paramType = NoParamType
  /\ binding = NoBinding

\* the form is saved: cleanData goes into the body of the POST or PUT
handleSaveRecord ==
  /\ coerceStep = "input"
  /\ path \in {"create", "update"}
  /\ payload' \in (IF path = "create" THEN CreateClean(sqlType, entered)
                   ELSE UpdateClean(existing, entered))
  /\ coerceStep' = "submitted"
  /\ UNCHANGED <<sqlType, path, existing, entered, paramType, binding>>
  /\ UNCHANGED <<mainVars, execVars, schemaVars, pageVars, uiVars, waitVars>>

\* another client sends the value in the body as it is
apiRequest ==
  /\ coerceStep = "input"
  /\ path = "api"
  /\ payload' = entered
  /\ coerceStep' = "submitted"
  /\ UNCHANGED <<sqlType, path, existing, entered, paramType, binding>>
  /\ UNCHANGED <<mainVars, execVars, schemaVars, pageVars, uiVars, waitVars>>

\* insertRecord / updateRecord look the column's type up and executeQuery
\* makes the addParameter call
bindParameter ==
  /\ coerceStep = "submitted"
  /\ LET pt == [type |-> getTypeFromSqlType(sqlType), typeName |-> sqlType]
     IN /\ paramType' = pt
        /\ binding' = BindParameter(0, payload, pt)
  /\ coerceStep' = "bound"
  /\ UNCHANGED <<sqlType, path, existing, entered, payload>>
  /\ UNCHANGED <<mainVars, execVars, schemaVars, pageVars, uiVars, waitVars>>

CoerceNext == handleSaveRecord \/ apiRequest \/ bindParameter

CoerceSpec == CoerceInit /\ [][CoerceNext]_vars

\* ------------------------------------- the table-data route's paging
\* GET /api/tables/T?page=..&pageSize=..: the route parses the two query
\* parameters with parseInt and hands the numbers to getTableData, which
\* writes them into the data statements.  The engine accepts OFFSET n /
\* FETCH NEXT m only for numbers n >= 0 and m >= 1, and a BETWEEN only
\* between numbers; it may also fail a statement for reasons of its own.
RawParams == {Absent, Str(""), Str("2"), Str("abc"), Str("0"), Str("-1"), Str("2x")}

\* searchParams.get(name) || fallback
OrDefault(raw, fallback) == IF raw = Absent \/ raw = Str("") THEN fallback ELSE raw.s

RECURSIVE DigitPrefix(_)
DigitPrefix(s) ==
  IF Len(s) > 0 /\ IsDigit(SubSeq(s, 1, 1))
  THEN SubSeq(s, 1, 1) \o DigitPrefix(SubSeq(s, 2, Len(s)))
  ELSE ""

\* parseInt(text, 10) for text without leading white space: an optional
\* sign and the longest run of digits; NaN when there is no digit
ParseInt(s) ==
  LET neg == Len(s) > 0 /\ SubSeq(s, 1, 1) = "-"
      u == IF neg \/ (Len(s) > 0 /\ SubSeq(s, 1, 1) = "+") THEN SubSeq(s, 2, Len(s)) ELSE s
      ds == DigitPrefix(u)
  IN IF ds = "" THEN NaN
     ELSE Num(IF neg THEN 0 - IndexValue(ds) ELSE IndexValue(ds))

JsPlus(a, b) == IF a = NaN \/ b = NaN THEN NaN ELSE Num(a.n + b.n)
JsTimes(a, b) == IF a = NaN \/ b = NaN THEN NaN ELSE Num(a.n * b.n)

PagedCount == [kind |-> "COUNT"]
\* OFFSET ${(page - 1) * pageSize} ROWS FETCH NEXT ${pageSize} ROWS ONLY
PagedModern(pg) ==
  [kind |-> "MODERN", offset |-> JsTimes(JsPlus(pg.page, Num(0 - 1)), pg.pageSize),
   fetch |-> pg.pageSize]
\* RowNum BETWEEN ${(page - 1) * pageSize + 1} AND ${page * pageSize}
PagedLegacy(pg) ==
  [kind |-> "LEGACY", lo |-> JsPlus(JsTimes(JsPlus(pg.page, Num(0 - 1)), pg.pageSize), Num(1)),
   hi |-> JsTimes(pg.page, pg.pageSize)]

EngineAccepts(stmt) ==
  CASE stmt.kind = "MODERN" ->
         stmt.offset # NaN /\ stmt.fetch # NaN /\ stmt.offset.n >= 0 /\ stmt.fetch.n >= 1
    [] stmt.kind = "LEGACY" -> stmt.lo # NaN /\ stmt.hi # NaN
    [] OTHER -> TRUE

PageEnvelope == [status |-> 200, fields |-> {"data", "total"}]
PageDegraded == [status |-> 500, fields |-> {"data", "total", "error"}]

PageInit ==
  /\ MainIdle /\ ExecIdle /\ SchemaIdle /\ CoerceIdle /\ UiIdle /\ WaitIdle
  /\ pageStep = "request"
  /\ rawPage \in RawParams
  /\ rawPageSize \in RawParams
  /\ parsed = [page |-> 0, pageSize |-> 0]
  /\ pageSent = <<>>
  /\ pageResponse = [status |-> 0]

PageAnswer(r) ==
  /\ pageStep' = "done"
  /\ pageResponse' = r

\* the route up to getTableData's count query; createConnection may fail
pagedGET ==
  /\ pageStep = "request"
  /\ \/ /\ PageAnswer(PageDegraded)
        /\ UNCHANGED <<parsed, pageSent>>
     \/ /\ parsed' = [page |-> ParseInt(OrDefault(rawPage, "1")),
                       pageSize |-> ParseInt(OrDefault(rawPageSize, "50"))]
        /\ pageSent' = <<PagedCount>>
        /\ pageStep' = "count"
        /\ UNCHANGED pageResponse
  /\ UNCHANGED <<rawPage, rawPageSize>>
  /\ UNCHANGED <<mainVars, execVars, schemaVars, coerceVars, uiVars, waitVars>>

pagedCountOk ==
  /\ pageStep = "count"
  /\ pageSent' = Append(pageSent, PagedModern(parsed))
  /\ pageStep' = "modern"
  /\ UNCHANGED <<rawPage, rawPageSize, parsed, pageResponse>>
  /\ UNCHANGED <<mainVars, execVars, schemaVars, coerceVars, uiVars, waitVars>>

pagedCountFail ==
  /\ pageStep = "count"
  /\ PageAnswer(PageDegraded)
  /\ UNCHANGED <<rawPage, rawPageSize, parsed, pageSent>>
  /\ UNCHANGED <<mainVars, execVars, schemaVars, coerceVars, uiVars, waitVars>>

pagedModernOk ==
  /\ pageStep = "modern"
  /\ EngineAccepts(pageSent[Len(pageSent)])
  /\ PageAnswer(PageEnvelope)
  /\ UNCHANGED <<rawPage, rawPageSize, parsed, pageSent>>
  /\ UNCHANGED <<mainVars, execVars, schemaVars, coerceVars, uiVars, waitVars>>

pagedModernFail ==
  /\ pageStep = "modern"
  /\ pageSent' = Append(pageSent, PagedLegacy(parsed))
  /\ pageStep' = "legacy"
  /\ UNCHANGED <<rawPage, rawPageSize, parsed, pageResponse>>
  /\ UNCHANGED <<mainVars, execVars, schemaVars, coerceVars, uiVars, waitVars>>

pagedLegacyOk ==
  /\ pageStep = "legacy"
  /\ EngineAccepts(pageSent[Len(pageSent)])
  /\ PageAnswer(PageEnvelope)
  /\ UNCHANGED <<rawPage, rawPageSize, parsed, pageSent>>
  /\ UNCHANGED <<mainVars, execVars, schemaVars, coerceVars, uiVars, waitVars>>

pagedLegacyFail ==
  /\ pageStep = "legacy"
  /\ PageAnswer(PageDegraded)
  /\ UNCHANGED <<rawPage, rawPageSize, parsed, pageSent>>
  /\ UNCHANGED <<mainVars, execVars, schemaVars, coerceVars, uiVars, waitVars>>

PageNext ==
  \/ pagedGET \/ pagedCountOk \/ pagedCountFail
  \/ pagedModernOk \/ pagedModernFail \/ pagedLegacyOk \/ pagedLegacyFail

PageSpec == PageInit /\ [][PageNext]_vars

\* ------------------------------------- executeQuery's readiness wait
\* One executeQuery call on a connection that other calls and the driver
\* move between its states (the schema route keeps the connection after a
\* table's metadata fetch failed, so a call outlives the failure of its
\* getTableMetadata).  The call only reads connection.state.name.
MaxPolls == 4

EntryStates == {"Connecting", "SentClientRequest", "LoggedIn", "Final"}

WaitInit ==
  /\ MainIdle /\ ExecIdle /\ SchemaIdle /\ CoerceIdle /\ PageIdle /\ UiIdle
  /\ seenState \in EntryStates
  /\ waitPhase = "notCalled"
  /\ waitTimer = FALSE
  /\ pollTimer = FALSE
  /\ pollLog = <<>>

\* executeQuery is called: no wait when LoggedIn; otherwise the 15 s timer
\* is set and checkState runs for the first time
executeQuery ==
  /\ waitPhase = "notCalled"
  /\ IF seenState = "LoggedIn"
     THEN /\ waitPhase' = "resolved"
          /\ UNCHANGED <<waitTimer, pollTimer, pollLog>>
     ELSE IF seenState = "Final"
     THEN /\ waitPhase' = "rejected"
          /\ UNCHANGED <<waitTimer, pollTimer, pollLog>>
     ELSE /\ waitPhase' = "waiting"
          /\ waitTimer' = TRUE
          /\ pollTimer' = TRUE
          /\ pollLog' = <<[settled |-> FALSE, state |-> seenState]>>
  /\ UNCHANGED seenState
  /\ UNCHANGED <<mainVars, execVars, schemaVars, coerceVars, pageVars, uiVars>>

\* a checkState timer fires: LoggedIn clears the 15 s timer and resolves,
\* Final clears it and rejects, any other state sets the next 100 ms timer;
\* resolve and reject do nothing to a promise already settled
pollState ==
  /\ pollTimer
  /\ IF seenState \in {"LoggedIn", "Final"}
     THEN /\ pollTimer' = FALSE
          /\ waitTimer' = FALSE
          /\ waitPhase' = IF waitPhase # "waiting" THEN waitPhase
                          ELSE IF seenState = "LoggedIn" THEN "resolved" ELSE "rejected"
          /\ UNCHANGED pollLog
     ELSE /\ Len(pollLog) < MaxPolls
          /\ pollLog' = Append(pollLog, [settled |-> waitPhase # "waiting", state |-> seenState])
          /\ UNCHANGED <<pollTimer, waitTimer, waitPhase>>
  /\ UNCHANGED seenState
  /\ UNCHANGED <<mainVars, execVars, schemaVars, coerceVars, pageVars, uiVars>>

\* the 15 s timer fires: the wait is rejected; the checkState timer stays
readinessTimeout ==
  /\ waitTimer
  /\ waitTimer' = FALSE
  /\ waitPhase' = IF waitPhase = "waiting" THEN "rejected" ELSE waitPhase
  /\ UNCHANGED <<seenState, pollTimer, pollLog>>
  /\ UNCHANGED <<mainVars, execVars, schemaVars, coerceVars, pageVars, uiVars>>

\* the connection changes state under the call: login completes, another
\* call's statement is handed over or completes, the connection closes
stateChange ==
  /\ seenState' \in (CASE seenState = "Connecting" -> {"LoggedIn", "Final"}
                       [] seenState = "LoggedIn" -> {"SentClientRequest", "Final"}
                       [] seenState = "SentClientRequest" -> {"LoggedIn", "Final"}
                       [] OTHER -> {})
  /\ UNCHANGED <<waitPhase, waitTimer, pollTimer, pollLog>>
  /\ UNCHANGED <<mainVars, execVars, schemaVars, coerceVars, pageVars, uiVars>>

WaitNext == executeQuery \/ pollState \/ readinessTimeout \/ stateChange

WaitSpec == WaitInit /\ [][WaitNext]_vars

\* ------------------------------------------------ the page in the browser
\* Home with useSchema and useTableData: the table selected in the sidebar,
\* the current page, and the fetchTableData calls the effect on
\* [selectedTable, currentPage] makes.  A state change and the effect it
\* triggers are one step; responses arrive in any order.
MaxFetches == 4

UiTables == <<"Customers", "Orders">>
UiPageSize == 50

\* what the table-data route reports as total for the table
TotalOf(t) == IF t = UiTables[1] THEN 120 ELSE 40

\* fetchTableData(tableName, page) up to its await
StartFetch(t, p) ==
  /\ Len(fetchLog) < MaxFetches
  /\ fetchLog' = Append(fetchLog, [table |-> t, page |-> p])
  /\ inflight' = inflight \cup {Len(fetchLog) + 1}
  /\ loading' = TRUE
  /\ UNCHANGED <<tableData, dataError, lastDone>>

\* fetchSchema has answered: the first table is selected
fetchSchema ==
  /\ selectedTable = ""
  /\ selectedTable' = UiTables[1]
  /\ StartFetch(UiTables[1], currentPage)
  /\ UNCHANGED currentPage
  /\ UNCHANGED <<mainVars, execVars, schemaVars, coerceVars, pageVars, waitVars>>

\* a table is clicked in the sidebar; clicking the selected one changes no
\* state and runs no effect
handleTableSelect(t) ==
  /\ selectedTable # ""
  /\ t # selectedTable
  /\ selectedTable' = t
  /\ StartFetch(t, currentPage)
  /\ UNCHANGED currentPage
  /\ UNCHANGED <<mainVars, execVars, schemaVars, coerceVars, pageVars, waitVars>>

\* Previous / Next of Pagination, rendered when tableData.total > 0
onPageChange(next) ==
  /\ selectedTable # ""
  /\ tableData.total > 0
  /\ IF next THEN currentPage * UiPageSize < tableData.total ELSE currentPage # 1
  /\ currentPage' = IF next THEN currentPage + 1
                    ELSE IF currentPage - 1 > 1 THEN currentPage - 1 ELSE 1
  /\ StartFetch(selectedTable, currentPage')
  /\ UNCHANGED selectedTable
  /\ UNCHANGED <<mainVars, execVars, schemaVars, coerceVars, pageVars, waitVars>>

\* the record form refreshes the grid after a save or a delete
refreshTableData ==
  /\ selectedTable # ""
  /\ StartFetch(selectedTable, currentPage)
  /\ UNCHANGED <<selectedTable, currentPage>>
  /\ UNCHANGED <<mainVars, execVars, schemaVars, coerceVars, pageVars, waitVars>>

\* the response of call id arrives with response.ok
fetchOk(id) ==
  /\ id \in inflight
  /\ inflight' = inflight \ {id}
  /\ tableData' = [table |-> fetchLog[id].table, page |-> fetchLog[id].page,
                   total |-> TotalOf(fetchLog[id].table)]
  /\ loading' = FALSE
  /\ lastDone' = [call |-> id, ok |-> TRUE]
  /\ UNCHANGED <<selectedTable, currentPage, fetchLog, dataError>>
  /\ UNCHANGED <<mainVars, execVars, schemaVars, coerceVars, pageVars, waitVars>>

\* the response of call id is not ok, or fetch itself fails
fetchFail(id) ==
  /\ id \in inflight
  /\ inflight' = inflight \ {id}
  /\ dataError' = "Failed to fetch data for table " \o fetchLog[id].table
  /\ loading' = FALSE
  /\ lastDone' = [call |-> id, ok |-> FALSE]
  /\ UNCHANGED <<selectedTable, currentPage, fetchLog, tableData>>
  /\ UNCHANGED <<mainVars, execVars, schemaVars, coerceVars, pageVars, waitVars>>

UiNext ==
  \/ fetchSchema
  \/ \E t \in Range(UiTables) : handleTableSelect(t)
  \/ \E next \in BOOLEAN : onPageChange(next)
  \/ refreshTableData
  \/ \E id \in 1..MaxFetches : fetchOk(id)
  \/ \E id \in 1..MaxFetches : fetchFail(id)

UiSpec == Init /\ [][UiNext]_vars

\* C12: every connection opened by createConnection during a request is
\* closed by the time the request finishes, on every path, including
\* createConnection rejecting on error or on its timeout
C12_ConnectionClosed ==
  route = "done" => connState \in {"None", "Final"}

\* C13: executeQuery hands a statement to execSql only while the connection
\* state is LoggedIn; in any other state it keeps polling, and when the
\* state is Final before LoggedIn the call fails with a connection error
\* and its statement is never handed over
C13_OnlyWhenLoggedIn ==
  /\ \A i \in DOMAIN execLog : execLog[i].state = "LoggedIn"
  /\ \A c \in DOMAIN calls :
       /\ calls[c].phase = "waiting" => calls[c].poll
       /\ calls[c].error = "closed" =>
            /\ calls[c].phase = "rejected"
            /\ \A i \in DOMAIN execLog : execLog[i].call # c
       /\ calls[c].phase \in {"dispatched", "resolved"} =>
            \E i \in DOMAIN execLog : execLog[i].call = c

C13_Witness ==
  /\ calls[2].error = "closed"
  /\ calls[2].phase = "rejected"
  /\ execLog # <<>>
  /\ \A i \in DOMAIN execLog : execLog[i].call # 2

\* C14: every blocking wait of executeQuery is bounded: a pending timer
\* stands behind the readiness poll and behind the wait for the completion
\* of a handed statement alike
C14_WaitsBounded ==
  \A c \in DOMAIN calls :
    calls[c].phase \in {"waiting", "dispatched"} => calls[c].timeout

\* C15: within one getTableMetadata call the three statements are
\* serialized on the connection: a statement is handed over only when no
\* earlier one still awaits completion, so never two are in flight
C15_Serialized ==
  /\ Cardinality(InFlight(calls)) <= 1
  /\ \A i \in DOMAIN execLog : execLog[i].inflight = {}

C15_Witness ==
  /\ Len(execLog) = Len(MetadataQueries)
  /\ \A c \in MetadataCalls : \E i \in DOMAIN execLog : execLog[i].call = c
  /\ calls[1].phase = "resolved" /\ calls[2].phase = "resolved"
  /\ calls[3].phase = "dispatched"

\* the metadata of the tables visited so far whose fetch resolved
RECURSIVE Succeeded(_)
Succeeded(n) ==
  IF n = 0 THEN <<>>
  ELSE IF fetched[n]
       THEN Append(Succeeded(n - 1),
                   TableMetadata(tables[n], [q \in 1..Len(MetadataQueries) |->
                                               QueryResult(tables[n], q)]))
       ELSE Succeeded(n - 1)

\* C16: during the schema enumeration a table whose metadata fetch fails is
\* skipped and the enumeration goes on: the response lists the metadata of
\* exactly the tables whose fetch succeeded, in getAllTables' order, and a
\* table's failure never turns the response into an error
C16_FailuresIsolated ==
  /\ tablesWithMetadata = Succeeded(Len(fetched))
  /\ (schemaPc = "done" /\ schemaResponse.status # 200) =>
       /\ schemaResponse.cause \in {"createConnection", "getAllTables"}
       /\ fetched = <<>>
  /\ (schemaPc = "done" /\ schemaResponse.status = 200) =>
       /\ Len(fetched) = Len(tables)
       /\ schemaResponse.tables = Succeeded(Len(tables))

C16_Witness ==
  /\ schemaPc = "done"
  /\ Len(tables) = 3
  /\ fetched = <<TRUE, FALSE, TRUE>>
  /\ Len(schemaResponse.tables) = 2
  /\ schemaResponse.tables[2].name = tables[3]

\* C17: the binding-type resolver gives exact names precedence over the
\* generic "int" substring match: bigint, smallint and tinyint resolve to
\* their own binding and none of them to the binding of int
C17_ExactNamesFirst ==
  (coerceStep = "bound" /\ sqlType \in {"bigint", "smallint", "tinyint"}) =>
    /\ paramType.type = (CASE sqlType = "bigint" -> "BigInt"
                           [] sqlType = "smallint" -> "SmallInt"
                           [] sqlType = "tinyint" -> "TinyInt")
    /\ paramType.type # getTypeFromSqlType("int")

\* C18: a value bound for a bit column is sent as a boolean: the strings
\* "true" and "false" as true and false, any other value by its truthiness
C18_BitAsBoolean ==
  (coerceStep = "bound" /\ sqlType = "bit" /\ entered \notin {Null, Str("")}) =>
    /\ binding.type = "Bit"
    /\ binding.value = BooleanOf(entered)

NumericTypes == {"int", "bigint", "smallint", "tinyint", "decimal", "float"}

\* C19: a string bound for a numeric column is sent as the number it
\* parses to when it looks numeric and as a null binding when it does not
C19_NumericStrings ==
  (coerceStep = "bound" /\ sqlType \in NumericTypes /\ entered.t = "string"
     /\ entered # Str("")) =>
    /\ binding.value = NumberOrNull(entered)
    /\ binding.type # "NVarChar" \/ binding.value = Null

IsDataUri(s) == StartsWith(s, "data:") /\ Includes(s, ";base64,")

\* C20: a string bound for a column with a binary binding (image, binary,
\* varbinary) is sent as the decoded bytes when it is a data URI with
\* ';base64,' and as a null binary binding otherwise, never as text
C20_BinaryStrings ==
  (coerceStep = "bound" /\ sqlType \in {"image", "binary", "varbinary"}
     /\ payload.t = "string") =>
    /\ binding.type \in {"VarBinary", "Image"}
    /\ binding.value = (IF IsDataUri(payload.s)
                        THEN Buffer(Base64Decode(Base64Part(payload.s)))
                        ELSE Null)

\* page or pageSize as sent is not a positive integer
Malformed(raw, fallback) ==
  LET n == ParseInt(OrDefault(raw, fallback)) IN n = NaN \/ n.n <= 0

\* C21: a table-data request whose page or pageSize is malformed
\* (non-numeric, zero or negative) fails: it is never answered with rows
\* and no count or data query is executed for it
C21_MalformedPagingRejected ==
  (pageStep # "request" /\ (Malformed(rawPage, "1") \/ Malformed(rawPageSize, "50"))) =>
    /\ pageSent = <<>>
    /\ pageResponse.status # 200

WriteMethods == {"POST", "PUT", "DELETE"}

\* C22: a failure on a write path (connection, metadata fetch, the
\* INSERT/UPDATE/DELETE itself) reaches the caller as a failure: the answer
\* is never success and never a data envelope
C22_WriteFailurePropagates ==
  (pc = "done" /\ req.method \in WriteMethods /\ response.cause # NoError) =>
    /\ response.status = 500
    /\ ~response.success
    /\ response.fields = {"error"}

C22_Witness ==
  /\ pc = "done" /\ req.method = "PUT"
  /\ SentOfKind("UPDATE") # {}
  /\ response.cause.seq \in SentOfKind("UPDATE")
  /\ response.status = 500

ColumnNames == {columns[c].name : c \in 1..Len(columns)}

\* C23: every column name written into an INSERT or UPDATE statement is a
\* column of the table as introspected; a key of the record that is no
\* column never reaches the statement
C23_OnlyIntrospectedColumns ==
  columns # <<>> =>
    \A i \in SentOfKind("INSERT") \cup SentOfKind("UPDATE") :
      Range(sent[i].columns) \subseteq ColumnNames

LoggedCalls == {execLog[i].call : i \in DOMAIN execLog}

\* C25: the INSERT is handed over only after all three metadata queries of
\* getTableMetadata have completed successfully; when one of them fails no
\* write statement is sent and the request fails
C25_WriteAfterMetadata ==
  /\ calls[WriteCall].phase # "notCalled" =>
       \A c \in MetadataCalls : calls[c].phase = "resolved"
  /\ WriteCall \in LoggedCalls => execLog[Len(execLog)].call = WriteCall
  /\ (\E c \in MetadataCalls : calls[c].phase = "rejected") =>
       /\ calls[WriteCall].phase = "notCalled"
       /\ WriteCall \notin LoggedCalls
       /\ route = "done" /\ outcome = "failure"

C25_Witness ==
  /\ calls[WriteCall].phase = "dispatched"
  /\ Len(execLog) = Len(ExecCalls)

C25_WitnessFailure ==
  /\ calls[1].phase = "resolved" /\ calls[2].phase = "resolved"
  /\ calls[3].phase = "rejected" /\ calls[3].error = "query"
  /\ route = "done"

DataStatements == SentOfKind("MODERN") \cup SentOfKind("LEGACY")

\* C26: getTableData executes the count query exactly once and before any
\* data query; its total is returned unchanged with the rows of whichever
\* pagination strategy succeeded; when the count query fails no data query
\* is executed and the count error propagates
C26_CountFirstAndOnce ==
  req.method = "GET" =>
    /\ SentOfKind("COUNT") \subseteq {1}
    /\ DataStatements # {} => (1 \in SentOfKind("COUNT") /\ 1 \notin DataStatements)
    /\ (pc = "done" /\ response.status = 200) =>
         (response.total = total /\ total \in {0, req.nrows})
    /\ (pc = "done" /\ response.cause.seq = 1) =>
         (DataStatements = {} /\ response.status = 500 /\ response.total = 0)

C26_Witness ==
  /\ pc = "done" /\ req.method = "GET" /\ response.status = 200
  /\ SentOfKind("LEGACY") # {}
  /\ total = 5 /\ Len(response.data) = 2

\* C24: createConnection settles within 10 seconds: it resolves only when
\* the connect event reports no error, the connection then being LoggedIn,
\* and it rejects if the connection is not LoggedIn when the 10 s timer
\* fires; once the timer has fired the promise is no longer pending
C24_ConnectSettles ==
  [][/\ (created = "pending" /\ created' = "resolved") =>
          (connState = "Connecting" /\ connState' = "LoggedIn")
     /\ (connectTimer /\ ~connectTimer' /\ connState # "LoggedIn" /\ created = "pending") =>
          created' = "rejected"
     /\ (created' # "none" /\ ~connectTimer') => created' # "pending"]_vars

C24_Witness ==
  /\ created = "rejected"
  /\ connState = "Connecting"
  /\ ~connectTimer

\* C27: once the readiness wait of executeQuery has settled (resolved on
\* LoggedIn, rejected on Final, rejected by the 15 s timeout) that call
\* sets no further checkState timer
C27_PollingStops ==
  \A i \in DOMAIN pollLog : ~pollLog[i].settled

\* C28: selecting a different table resets the current page to 1: the
\* first data request issued for a newly selected table is for page 1
C28_SelectionResetsPage ==
  \A i \in DOMAIN fetchLog :
    (i = 1 \/ fetchLog[i].table # fetchLog[i - 1].table) => fetchLog[i].page = 1

\* C29: once all outstanding fetches have completed, the tableData held by
\* useTableData is the response for the most recently requested
\* (selectedTable, currentPage); a late response never overwrites it
C29_LatestRequestWins ==
  (inflight = {} /\ fetchLog # <<>> /\ dataError = "") =>
    /\ tableData.table = selectedTable
    /\ tableData.page = currentPage

\* C30: after a fetch has failed and set the error, a later fetch that
\* completes successfully clears it, so the grid shows the loaded rows
C30_SuccessClearsError ==
  (lastDone.call > 0 /\ lastDone.ok) => dataError = ""

====
